---- MODULE Spec2Model ----
(***************************************************************************)
(* Model of the Reddit fetch pipeline of SignalFromNoise:                  *)
(*   src/src/reddit_scraper.py  RedditScraper._make_request,               *)
(*                              RedditScraper.fetch_subreddit_posts,       *)
(*                              RedditScraper.scrape_post_details,         *)
(*                              RedditScraper._extract_comments,           *)
(*                              clean_text, extract_all_comments_text,     *)
(*                              fetch_posts_from_subreddits                *)
(*   src/src/main.py            BuildOpportunityAnalyzer.run               *)
(*                                                                         *)
(* Three specifications share the variables:                               *)
(*   Spec      one call of fetch_posts_from_subreddits, step by step       *)
(*   SpecRun   BuildOpportunityAnalyzer.run on a fetched post list         *)
(*   SpecFlat  the comment-text functions on bounded comment trees         *)
(***************************************************************************)
EXTENDS Integers, Sequences, FiniteSets, TLC

VARIABLES
    \* inputs of fetch_posts_from_subreddits
    subreddits, category, posts_per_subreddit, include_comments,
    max_comments_per_post,
    \* fetch_posts_from_subreddits
    pc, si, all_posts, posts, pi, outcome,
    \* RedditScraper.fetch_subreddit_posts
    batch_size, total_fetched, after, listing_posts, data,
    \* RedditScraper._make_request
    attempt, caller, req_result,
    \* history of the current logical request and of the current listing
    attempts, sleeps, served, page_reqs, pauses, page_failed, fetch_log,
    \* BuildOpportunityAnalyzer.run
    merged, shuffle_i, run_posts,
    \* extract_all_comments_text called on a comment tree
    comments, all_text, flat_out,
    \* RedditScraper._extract_comments called on a raw comment forest
    raw_comments, extracted_comments

inputVars == <<subreddits, category, posts_per_subreddit, include_comments,
               max_comments_per_post>>
orchVars == <<pc, si, all_posts, posts, pi, outcome>>
listVars == <<batch_size, total_fetched, after, listing_posts, data>>
reqVars == <<attempt, caller, req_result>>
histVars == <<attempts, sleeps, served, page_reqs, pauses, page_failed,
              fetch_log>>
runVars == <<merged, shuffle_i, run_posts>>
flatVars == <<comments, all_text, flat_out, raw_comments,
              extracted_comments>>
vars == <<inputVars, orchVars, listVars, reqVars, histVars, runVars,
          flatVars>>

(***************************************************************************)
(* Bounds of the model.                                                    *)
(***************************************************************************)
MaxLimit == 3
MaxPageLen == 2
MaxNodes == 3
MaxPosts == 6
MaxShuffled == 4
MaxComments == 2
\* the nodes of a raw comment forest given to _extract_comments
MaxRawNodes == 3

Min(a, b) == IF a < b THEN a ELSE b

RECURSIVE SumLen(_)
SumLen(ps) == IF ps = <<>> THEN 0 ELSE Head(ps).n + SumLen(Tail(ps))

(***************************************************************************)
(* Text.  A Python str is a sequence of one-character strings, so that     *)
(* strip(), lower() and the substring test are computed, not assumed.      *)
(***************************************************************************)
Whitespace == {" "}

Lower(c) ==
    CASE c = "D" -> "d"
      [] c = "E" -> "e"
      [] c = "L" -> "l"
      [] c = "T" -> "t"
      [] c = "R" -> "r"
      [] c = "M" -> "m"
      [] c = "O" -> "o"
      [] c = "V" -> "v"
      [] OTHER -> c

StrLower(s) == [i \in 1..Len(s) |-> Lower(s[i])]

RECURSIVE LStrip(_)
LStrip(s) ==
    IF s /= <<>> /\ Head(s) \in Whitespace THEN LStrip(Tail(s)) ELSE s

RECURSIVE RStrip(_)
RStrip(s) ==
    IF s /= <<>> /\ s[Len(s)] \in Whitespace
    THEN RStrip(SubSeq(s, 1, Len(s) - 1))
    ELSE s

Strip(s) == RStrip(LStrip(s))

Contains(s, sub) ==
    \E i \in 1..(Len(s) - Len(sub) + 1) : SubSeq(s, i, i + Len(sub) - 1) = sub

DeletedMarker == <<"[", "d", "e", "l", "e", "t", "e", "d", "]">>
RemovedMarker == <<"[", "r", "e", "m", "o", "v", "e", "d", "]">>

\* clean_text, reddit_scraper.py 203-212
clean_text(text) ==
    IF text = <<>>
    THEN <<>>
    ELSE LET cleaned == Strip(text)
         IN  IF \/ Contains(StrLower(cleaned), DeletedMarker)
                \/ Contains(StrLower(cleaned), RemovedMarker)
             THEN <<>>
             ELSE cleaned

(***************************************************************************)
(* Comment trees.  A raw node of the platform's JSON is                    *)
(*   [kind, body, replies |-> [isdict, children]]                          *)
(* where replies.isdict = FALSE is the "" sentinel of a comment without    *)
(* replies.  An extracted comment is [body, replies]; author and score are *)
(* copied and never read again, so they are left out.                      *)
(***************************************************************************)
NoReplies == [isdict |-> FALSE, children |-> <<>>]

\* every node counts as a comment
IsAnyNode(comment) == TRUE

\* isinstance(comment, dict) and comment.get("kind") == "t1",
\* reddit_scraper.py 182; a node that is not a dict has no kind of a comment
IsComment(comment) == comment.kind = "t1"

\* RedditScraper._extract_comments, reddit_scraper.py 177-200
RECURSIVE _extract_comments(_)
_extract_comments(raw) ==
    IF raw = <<>>
    THEN <<>>
    ELSE LET comment == Head(raw)
             rest == _extract_comments(Tail(raw))
         IN  IF IsComment(comment)
             THEN <<[body |-> comment.body,
                     replies |-> IF comment.replies.isdict
                                 THEN _extract_comments(comment.replies.children)
                                 ELSE <<>>]>> \o rest
             ELSE rest

\* the list a call of extract_all_comments_text starts from (line 217);
\* the variant keeps the list of the previous call
all_text_kept == all_text

\* all_text = [], reddit_scraper.py 217
all_text_new == <<>>

\* a recursion that is gated by the parent's body having been kept
RepliesVisitedIfKept(body, comment) == body /= <<>> /\ comment.replies /= <<>>

\* if comment.get("replies"), reddit_scraper.py 224
RepliesVisited(body, comment) == comment.replies /= <<>>

\* the body is put in front of the list
EmitFront(text, body) == <<body>> \o text

\* all_text.append(body), reddit_scraper.py 222
Emit(text, body) == Append(text, body)

\* extract_all_comments_text, reddit_scraper.py 215-227
RECURSIVE extract_all_comments_text(_)
RECURSIVE ExtractLoop(_, _)
ExtractLoop(text, cs) ==
    IF cs = <<>>
    THEN text
    ELSE LET comment == Head(cs)
             body == clean_text(comment.body)
             t1 == IF body /= <<>> THEN Emit(text, body) ELSE text
             t2 == IF RepliesVisited(body, comment)
                   THEN t1 \o extract_all_comments_text(comment.replies)
                   ELSE t1
         IN  ExtractLoop(t2, Tail(cs))

extract_all_comments_text(cs) == ExtractLoop(all_text_new, cs)

\* the comment bodies the bounded trees are built from
Bodies ==
    { <<>>,
      <<"a">>,
      <<" ", "b", " ">>,
      <<" ">>,
      DeletedMarker,
      <<"[", "R", "e", "m", "o", "v", "e", "d", "]">>,
      <<"a">> \o DeletedMarker }

\* the forests of extracted comments with exactly n nodes
RECURSIVE ForestsOfSize(_)
ForestsOfSize(n) ==
    IF n = 0
    THEN {<<>>}
    ELSE UNION { { <<[body |-> b, replies |-> r]>> \o rest :
                     b \in Bodies,
                     r \in ForestsOfSize(k),
                     rest \in ForestsOfSize(n - 1 - k) } : k \in 0..(n - 1) }

Forests == UNION { ForestsOfSize(n) : n \in 0..MaxNodes }

\* the kinds of the nodes of the platform's comment JSON: a comment and a
\* load-more stub
RawKinds == {"t1", "more"}

RawBodies == {<<"a">>, <<"b">>}

\* the replies of a raw node whose subtree has n nodes: the "" sentinel or
\* a listing object with its children
RawReplies(sub, n) ==
    {[isdict |-> TRUE, children |-> ch] : ch \in sub}
      \cup (IF n = 0 THEN {NoReplies} ELSE {})

\* the raw comment forests with exactly n nodes
RECURSIVE RawForestsOfSize(_)
RawForestsOfSize(n) ==
    IF n = 0
    THEN {<<>>}
    ELSE UNION { { <<[kind |-> k, body |-> b, replies |-> r]>> \o rest :
                     k \in RawKinds,
                     b \in RawBodies,
                     r \in RawReplies(RawForestsOfSize(m), m),
                     rest \in RawForestsOfSize(n - 1 - m) } : m \in 0..(n - 1) }

RawForests == UNION { RawForestsOfSize(n) : n \in 0..MaxRawNodes }

(***************************************************************************)
(* The platform, as the scraper sees it.                                   *)
(***************************************************************************)
\* what one HTTP attempt can end in: a parsed body, a transient failure
\* (network error, timeout, HTTP 429/500/502/503/504) or a non-retryable
\* client error (a 4xx status other than 429)
Failures == {"transient", "client_error"}

\* a listing page: its entries, whether data.after is set, and whether the
\* body has the shape lines 107-113 index into
Pages ==
    [shape : {"ok"}, n : 0..MaxPageLen, after : BOOLEAN]
      \cup {[shape |-> "malformed", n |-> 0, after |-> FALSE]}

Reply(b) ==
    [kind |-> "t1", body |-> b, replies |-> NoReplies]

\* the raw comment forests a post's details can carry
DetailForests ==
    { <<>>,
      << [kind |-> "t1", body |-> <<"a">>,
          replies |-> [isdict |-> TRUE,
                       children |-> <<Reply(<<" ", "b", " ">>)>>]],
         [kind |-> "more", body |-> <<>>, replies |-> NoReplies] >>,
      << Reply(DeletedMarker),
         [kind |-> "t1", body |-> <<"a">>,
          replies |-> [isdict |-> TRUE, children |-> <<Reply(<<"b">>)>>]],
         Reply(<<"b">>) >> }

\* a details body: not a list, a list of fewer than two elements, a list
\* whose elements lack the nested post entry or comment list, or well formed
DetailResponses ==
    [shape : {"not_list", "short", "bad_inner"}, forest : {<<>>}]
      \cup [shape : {"ok"}, forest : DetailForests]

NoData == [shape |-> "none", n |-> 0, after |-> FALSE]

(***************************************************************************)
(* Program constants.                                                      *)
(***************************************************************************)
\* max_retries: int = 3, reddit_scraper.py 46
max_retries == 3

\* batch_size = min(100, limit), reddit_scraper.py 81
ListingBatchCap == 100

\* category not in ["hot", "top", "new"], reddit_scraper.py 75
ValidCategories == {"hot", "top", "new"}

Categories == {"top", "rising"}

\* post_info, reddit_scraper.py 114-123: the k-th entry of a listing; the
\* detail field records how the post's detail fetch ended
Post(subreddit, k) ==
    [subreddit |-> subreddit, permalink |-> <<subreddit, k>>,
     has_top_comments |-> FALSE, top_comments |-> <<>>, detail |-> "none"]

\* the list is not cut
TakeAll(s, m) == s

\* the last m entries are kept
TakeLast(s, m) == SubSeq(s, Len(s) - Min(m, Len(s)) + 1, Len(s))

\* s[:m] for m >= 0, reddit_scraper.py 259 and 261
Take(s, m) == SubSeq(s, 1, Min(m, Len(s)))

\* RedditScraper.scrape_post_details after a successful request,
\* reddit_scraper.py 164-175: absent (None), an exception raised by the
\* indexing of lines 168-169, or the extracted comments
scrape_post_details(resp) ==
    IF resp.shape \in {"not_list", "short"}
    THEN [status |-> "absent", comments |-> <<>>]
    ELSE IF resp.shape = "bad_inner"
    THEN [status |-> "raised", comments |-> <<>>]
    ELSE [status |-> "ok", comments |-> _extract_comments(resp.forest)]

\* the branch of lines 257-263 a post's details took: the comments were
\* flattened ("ok"), there were none ("no_comments"), or there were no
\* details ("absent")
DetailBranch(post_details) ==
    IF post_details.status = "ok" /\ post_details.comments = <<>>
    THEN "no_comments"
    ELSE post_details.status

\* fetch_posts_from_subreddits, reddit_scraper.py 257-263
TopCommentsOf(post_details, m) ==
    IF post_details.status = "ok" /\ post_details.comments /= <<>>
    THEN Take(extract_all_comments_text(Take(post_details.comments, m)), m)
    ELSE <<>>

\* a post as it is kept in the merged result: how its detail fetch ended is
\* history of the loop over the posts, not a field of the post
Merged(post) == [post EXCEPT !.detail = "none"]

\* post['top_comments'] = ..., reddit_scraper.py 261, 263, 268
WithTopComments(post, text, how) ==
    [post EXCEPT !.has_top_comments = TRUE, !.top_comments = text,
                 !.detail = how]

(***************************************************************************)
(* fetch_posts_from_subreddits: the loop over the subreddits.              *)
(***************************************************************************)
ResetListing ==
    /\ total_fetched' = 0
    /\ after' = "None"
    /\ listing_posts' = <<>>
    /\ served' = <<>>
    /\ page_reqs' = 0
    /\ pauses' = <<>>
    /\ page_failed' = FALSE

\* except Exception ... return all_posts, reddit_scraper.py 272-279: an
\* exception that leaves fetch_subreddit_posts ends the whole loop
ListingRaised ==
    /\ fetch_log' = Append(fetch_log,
                       [subreddit |-> subreddits[si], status |-> "raised", n |-> 0])
    /\ ResetListing
    /\ pc' = "returned"
    /\ outcome' = "returned"

\* the category is never checked
CategoryAccepted(c) == FALSE

\* if category not in ["hot", "top", "new"]: raise ValueError,
\* reddit_scraper.py 75-76
CategoryRejected(c) == c \notin ValidCategories

\* for subreddit in subreddits: posts = scraper.fetch_subreddit_posts(...),
\* reddit_scraper.py 244-251 and 75-85
ForNext ==
    /\ pc = "for"
    /\ si <= Len(subreddits)
    /\ IF CategoryRejected(category)
       THEN /\ ListingRaised
            /\ UNCHANGED batch_size
       ELSE /\ batch_size' = Min(ListingBatchCap, posts_per_subreddit)
            /\ ResetListing
            /\ pc' = "while"
            /\ UNCHANGED <<outcome, fetch_log>>
    /\ UNCHANGED <<inputVars, si, all_posts, posts, pi, data, reqVars,
                   attempts, sleeps, runVars, flatVars>>

\* the loop is over: return all_posts, reddit_scraper.py 281
ForEnd ==
    /\ pc = "for"
    /\ si > Len(subreddits)
    /\ pc' = "returned"
    /\ outcome' = "returned"
    /\ UNCHANGED <<inputVars, si, all_posts, posts, pi, listVars, reqVars,
                   histVars, runVars, flatVars>>

(***************************************************************************)
(* RedditScraper.fetch_subreddit_posts: the pagination loop.               *)
(***************************************************************************)
\* the locals and the history of a finished _make_request call are gone
EndRequest ==
    /\ caller' = "none"
    /\ attempt' = 0
    /\ req_result' = "none"
    /\ attempts' = <<>>
    /\ sleeps' = <<>>

\* the start of a logical _make_request call
StartRequest(who) ==
    /\ caller' = who
    /\ attempt' = 0
    /\ req_result' = "pending"
    /\ attempts' = <<>>
    /\ sleeps' = <<>>
    /\ pc' = "get"

\* while total_fetched < limit: ... self._make_request(base_url, params),
\* reddit_scraper.py 87-96
WhileRequest ==
    /\ pc = "while"
    /\ total_fetched < posts_per_subreddit
    /\ StartRequest("listing")
    /\ page_reqs' = page_reqs + 1
    /\ UNCHANGED <<inputVars, si, all_posts, posts, pi, outcome, listVars,
                   served, pauses, page_failed, fetch_log, runVars, flatVars>>

\* the loop condition fails, reddit_scraper.py 87
WhileExit ==
    /\ pc = "while"
    /\ ~(total_fetched < posts_per_subreddit)
    /\ pc' = "list_ret"
    /\ UNCHANGED <<inputVars, si, all_posts, posts, pi, outcome, listVars,
                   reqVars, histVars, runVars, flatVars>>

(***************************************************************************)
(* RedditScraper._make_request: one attempt per step.                      *)
(***************************************************************************)
\* a first failure already escalates
RaisesAtFirst(a) == a = 0

\* if attempt == max_retries - 1: raise, reddit_scraper.py 61-62
RaisesNow(a) == a = max_retries - 1

\* the sleep grows linearly with the attempt index
BackoffLinear(a) == 2 * a

\* time.sleep(2 ** attempt), reddit_scraper.py 63
Backoff(a) == 2 ^ a

\* the exception of _make_request in its caller: lines 98-105 end the
\* pagination loop; lines 155-162 make scrape_post_details return None,
\* and line 263 then gives the post an empty comment list
RaiseToCaller ==
    /\ req_result' = "raised"
    /\ IF caller = "listing"
       THEN /\ page_failed' = TRUE
            /\ pc' = "list_ret"
            /\ UNCHANGED <<posts, pi>>
       ELSE /\ posts' = [posts EXCEPT
                            ![pi] = WithTopComments(posts[pi], <<>>, "transport")]
            /\ pi' = pi + 1
            /\ pc' = "posts"
            /\ UNCHANGED page_failed

\* session.get ... return response.json(), reddit_scraper.py 56-58
GetOk ==
    /\ pc = "get"
    /\ attempt < max_retries
    /\ \E d \in IF caller = "listing" THEN Pages ELSE DetailResponses :
          data' = d
    /\ attempts' = Append(attempts, "ok")
    /\ req_result' = "ok"
    /\ pc' = IF caller = "listing" THEN "page" ELSE "detail"
    /\ UNCHANGED <<inputVars, si, all_posts, posts, pi, outcome, batch_size,
                   total_fetched, after, listing_posts, attempt, caller,
                   sleeps, served, page_reqs, pauses, page_failed, fetch_log,
                   runVars, flatVars>>

\* except RequestException, not the last attempt: sleep and try again,
\* reddit_scraper.py 59-63 (line 65 when the loop runs out)
GetFailRetry ==
    /\ pc = "get"
    /\ attempt < max_retries
    /\ ~RaisesNow(attempt)
    /\ \E f \in Failures : attempts' = Append(attempts, f)
    /\ sleeps' = Append(sleeps, Backoff(attempt))
    /\ attempt' = attempt + 1
    /\ IF attempt + 1 < max_retries
       THEN UNCHANGED <<pc, req_result, posts, pi, page_failed>>
       ELSE RaiseToCaller
    /\ UNCHANGED <<inputVars, si, all_posts, outcome, listVars, caller,
                   served, page_reqs, pauses, fetch_log, runVars, flatVars>>

\* except RequestException on the last attempt: raise, reddit_scraper.py
\* 59-62
GetFailRaise ==
    /\ pc = "get"
    /\ attempt < max_retries
    /\ RaisesNow(attempt)
    /\ \E f \in Failures : attempts' = Append(attempts, f)
    /\ RaiseToCaller
    /\ UNCHANGED <<inputVars, si, all_posts, outcome, listVars, attempt,
                   caller, sleeps, served, page_reqs, pauses, fetch_log,
                   runVars, flatVars>>

(***************************************************************************)
(* RedditScraper.fetch_subreddit_posts: one page.                          *)
(***************************************************************************)
\* every entry of the page is kept
TakenAll(n, limit, total) == n

\* no entry of the page is kept
TakenNone(n, limit, total) == 0

\* for post in posts: ... if total_fetched >= limit: break,
\* reddit_scraper.py 112-137
Taken(n, limit, total) == Min(n, limit - total)

\* time.sleep(random.uniform(1, 2)), reddit_scraper.py 143: the ends of the
\* interval the pause is drawn from
PauseMin == 1
PauseMax == 2

\* the next page is requested without a pause
NoPauseAfterPage(ps, d) == ps

\* time.sleep(random.uniform(1, 2)), reddit_scraper.py 143
PauseAfterPage(ps, d) == Append(ps, d)

\* the loop goes on although the page carries no cursor
StopsAfterNever(page) == FALSE

\* if not after: break, reddit_scraper.py 139-141
StopsAfter(page) == ~page.after

\* lines 107-143 on the page just fetched
ProcessPage ==
    /\ pc = "page"
    /\ IF data.shape = "malformed"
       THEN ListingRaised
       ELSE LET k == Taken(data.n, posts_per_subreddit, total_fetched)
            IN  /\ served' = Append(served, [n |-> data.n, after |-> data.after])
                /\ UNCHANGED <<outcome, fetch_log, page_reqs, page_failed>>
                /\ IF data.n = 0
                   THEN /\ pc' = "list_ret"
                        /\ UNCHANGED <<total_fetched, after, listing_posts,
                                       pauses>>
                   ELSE /\ listing_posts' = listing_posts \o
                              [j \in 1..k |->
                                  Post(subreddits[si], total_fetched + j)]
                        /\ total_fetched' = total_fetched + k
                        /\ after' = IF data.after THEN "cursor" ELSE "None"
                        /\ IF StopsAfter(data)
                           THEN /\ pc' = "list_ret"
                                /\ UNCHANGED pauses
                           ELSE /\ \E d \in PauseMin..PauseMax :
                                      pauses' = PauseAfterPage(pauses, d)
                                /\ pc' = "while"
    /\ data' = NoData
    /\ EndRequest
    /\ UNCHANGED <<inputVars, si, all_posts, posts, pi, batch_size, runVars,
                   flatVars>>

\* a failed page throws the accumulated posts away
ReturnedPostsDropped(acc, failed) == IF failed THEN <<>> ELSE acc

\* break ... return all_posts, reddit_scraper.py 105 and 145-146: the list
\* is returned whether or not the loop ended on a failed page
ReturnedPosts(acc, failed) == acc

\* return all_posts, reddit_scraper.py 145-146, back in line 246
ListingReturn ==
    /\ pc = "list_ret"
    /\ posts' = ReturnedPosts(listing_posts, page_failed)
    /\ pi' = 1
    /\ fetch_log' = Append(fetch_log,
                       [subreddit |-> subreddits[si],
                        status |-> IF page_failed THEN "page_failed" ELSE "ok",
                        n |-> Len(ReturnedPosts(listing_posts, page_failed))])
    /\ ResetListing
    /\ EndRequest
    /\ pc' = "posts"
    /\ UNCHANGED <<inputVars, si, all_posts, outcome, batch_size, data,
                   runVars, flatVars>>

(***************************************************************************)
(* fetch_posts_from_subreddits: the details of each post.                  *)
(***************************************************************************)
\* scraper.scrape_post_details(post['permalink']), reddit_scraper.py 253-256
\* and 150-153
DetailCall ==
    /\ pc = "posts"
    /\ include_comments
    /\ pi <= Len(posts)
    /\ StartRequest("detail")
    /\ UNCHANGED <<inputVars, si, all_posts, posts, pi, outcome, listVars,
                   served, page_reqs, pauses, page_failed, fetch_log, runVars,
                   flatVars>>

\* an exception of the details code reaches the loop over the subreddits
DetailErrorUncaught == TRUE

\* try: ... except Exception as e, reddit_scraper.py 255, 264: an exception
\* of the details code stays inside the post's own handler
DetailErrorPropagates == FALSE

\* lines 164-175 and 257-268 on the details just fetched
DetailResponse ==
    /\ pc = "detail"
    /\ LET post_details == scrape_post_details(data)
       IN  IF post_details.status = "raised" /\ DetailErrorPropagates
           THEN /\ ListingRaised
                /\ UNCHANGED <<posts, pi>>
           ELSE /\ posts' = [posts EXCEPT ![pi] =
                      IF post_details.status = "raised"
                      THEN WithTopComments(posts[pi], <<>>, "raised")
                      ELSE WithTopComments(posts[pi],
                               TopCommentsOf(post_details, max_comments_per_post),
                               DetailBranch(post_details))]
                /\ pi' = pi + 1
                /\ pc' = "posts"
                /\ UNCHANGED <<outcome, fetch_log, total_fetched, after,
                               listing_posts, served, page_reqs, pauses,
                               page_failed>>
    /\ data' = NoData
    /\ EndRequest
    /\ UNCHANGED <<inputVars, si, all_posts, batch_size, runVars, flatVars>>

\* all_posts.extend(posts), reddit_scraper.py 270-271, and the next subreddit
ExtendPosts ==
    /\ pc = "posts"
    /\ ~include_comments \/ pi > Len(posts)
    /\ all_posts' = all_posts \o [i \in 1..Len(posts) |-> Merged(posts[i])]
    /\ posts' = <<>>
    /\ pi' = 1
    /\ si' = si + 1
    /\ EndRequest
    /\ pc' = "for"
    /\ UNCHANGED <<inputVars, outcome, listVars, served, page_reqs, pauses,
                   page_failed, fetch_log, runVars, flatVars>>

(***************************************************************************)
(* BuildOpportunityAnalyzer.run: shuffle the fetched posts and hand them   *)
(* to the summarizer.  random.shuffle is the in-place Fisher-Yates walk    *)
(* from the last index down, one swap per step.                            *)
(***************************************************************************)
\* the target slot is overwritten and the other one is left as it was
SwapLossy(x, i, j) == [x EXCEPT ![i] = x[j]]

\* x[i], x[j] = x[j], x[i]
Swap(x, i, j) == [x EXCEPT ![i] = x[j], ![j] = x[i]]

\* random.shuffle(posts) begins, main.py 40
ShuffleStart ==
    /\ pc = "run_fetched"
    /\ shuffle_i' = Len(run_posts)
    /\ pc' = "shuffle"
    /\ UNCHANGED <<inputVars, si, all_posts, posts, pi, outcome, listVars,
                   reqVars, histVars, merged, run_posts, flatVars>>

\* one step of random.shuffle(posts), main.py 40
ShuffleStep ==
    /\ pc = "shuffle"
    /\ shuffle_i >= 2
    /\ \E j \in 1..shuffle_i : run_posts' = Swap(run_posts, shuffle_i, j)
    /\ shuffle_i' = shuffle_i - 1
    /\ UNCHANGED <<inputVars, orchVars, listVars, reqVars, histVars, merged,
                   flatVars>>

\* if not posts: return, main.py 43-45
RunNoPosts ==
    /\ pc = "shuffle"
    /\ shuffle_i < 2
    /\ run_posts = <<>>
    /\ pc' = "run_exit"
    /\ UNCHANGED <<inputVars, si, all_posts, posts, pi, outcome, listVars,
                   reqVars, histVars, runVars, flatVars>>

\* self.llm_client.analyze_build_opportunity(posts=posts, ...), main.py 49
Analyze ==
    /\ pc = "shuffle"
    /\ shuffle_i < 2
    /\ run_posts /= <<>>
    /\ pc' = "analyze"
    /\ UNCHANGED <<inputVars, si, all_posts, posts, pi, outcome, listVars,
                   reqVars, histVars, runVars, flatVars>>

(***************************************************************************)
(* extract_all_comments_text called on a comment tree, twice.              *)
(***************************************************************************)
FlattenCall ==
    /\ pc = "flatten"
    /\ Len(flat_out) < 2
    /\ all_text' = extract_all_comments_text(comments)
    /\ flat_out' = Append(flat_out, extract_all_comments_text(comments))
    /\ UNCHANGED <<inputVars, orchVars, listVars, reqVars, histVars, runVars,
                   comments, raw_comments, extracted_comments>>

(***************************************************************************)
(* RedditScraper._extract_comments called on a raw comment forest.         *)
(***************************************************************************)
\* comments = self._extract_comments(...), reddit_scraper.py 169, 177-200
ExtractCall ==
    /\ pc = "extract"
    /\ extracted_comments' = _extract_comments(raw_comments)
    /\ pc' = "extracted"
    /\ UNCHANGED <<inputVars, si, all_posts, posts, pi, outcome, listVars,
                   reqVars, histVars, runVars, comments, all_text, flat_out,
                   raw_comments>>

(***************************************************************************)
(* Initial states and specifications.                                      *)
(***************************************************************************)
IdleFetch(at) ==
    /\ pc = at
    /\ si = 1
    /\ all_posts = <<>>
    /\ posts = <<>>
    /\ pi = 1
    /\ outcome = "running"
    /\ batch_size = 0
    /\ total_fetched = 0
    /\ after = "None"
    /\ listing_posts = <<>>
    /\ data = NoData
    /\ attempt = 0
    /\ caller = "none"
    /\ req_result = "none"
    /\ attempts = <<>>
    /\ sleeps = <<>>
    /\ served = <<>>
    /\ page_reqs = 0
    /\ pauses = <<>>
    /\ page_failed = FALSE
    /\ fetch_log = <<>>

IdleRun ==
    /\ merged = <<>>
    /\ shuffle_i = 0
    /\ run_posts = <<>>

IdleFlat ==
    /\ comments = <<>>
    /\ all_text = <<>>
    /\ flat_out = <<>>
    /\ raw_comments = <<>>
    /\ extracted_comments = <<>>

Subreddits == <<"r1", "r2", "r3">>

\* fetch_posts_from_subreddits is called, reddit_scraper.py 230-242
Init ==
    /\ subreddits \in {SubSeq(Subreddits, 1, k) : k \in 1..Len(Subreddits)}
    /\ category \in Categories
    /\ posts_per_subreddit \in (-1)..MaxLimit
    /\ Len(subreddits) * posts_per_subreddit <= MaxPosts
    /\ include_comments \in BOOLEAN
    /\ max_comments_per_post \in 0..MaxComments
    /\ IdleFetch("for")
    /\ IdleRun
    /\ IdleFlat

Next ==
    \/ ForNext
    \/ ForEnd
    \/ WhileRequest
    \/ WhileExit
    \/ GetOk
    \/ GetFailRetry
    \/ GetFailRaise
    \/ ProcessPage
    \/ ListingReturn
    \/ DetailCall
    \/ DetailResponse
    \/ ExtendPosts

Spec == Init /\ [][Next]_vars

\* the posts fetch_posts_from_subreddits can return to run
RunPosts == {Merged(Post(r, k)) : r \in {"r1", "r2"}, k \in 1..2}

RECURSIVE SeqsUpTo(_, _)
SeqsUpTo(S, n) ==
    IF n = 0
    THEN {<<>>}
    ELSE LET shorter == SeqsUpTo(S, n - 1)
         IN  shorter \cup {Append(q, x) : q \in shorter, x \in S}

\* posts = fetch_posts_from_subreddits(...) has returned, main.py 31-37
InitRun ==
    /\ subreddits = Subreddits
    /\ category = "top"
    /\ posts_per_subreddit = 0
    /\ include_comments = TRUE
    /\ max_comments_per_post = 0
    /\ IdleFetch("run_fetched")
    /\ IdleFlat
    /\ run_posts \in SeqsUpTo(RunPosts, MaxShuffled)
    /\ merged = run_posts
    /\ shuffle_i = 0

NextRun ==
    \/ ShuffleStart
    \/ ShuffleStep
    \/ RunNoPosts
    \/ Analyze

SpecRun == InitRun /\ [][NextRun]_vars

\* a comment tree is given to extract_all_comments_text
InitFlat ==
    /\ subreddits = Subreddits
    /\ category = "top"
    /\ posts_per_subreddit = 0
    /\ include_comments = TRUE
    /\ max_comments_per_post = 0
    /\ IdleFetch("flatten")
    /\ IdleRun
    /\ comments \in Forests
    /\ all_text = <<>>
    /\ flat_out = <<>>
    /\ raw_comments = <<>>
    /\ extracted_comments = <<>>

NextFlat == FlattenCall

SpecFlat == InitFlat /\ [][NextFlat]_vars

\* a raw comment forest is given to _extract_comments
InitExtract ==
    /\ subreddits = Subreddits
    /\ category = "top"
    /\ posts_per_subreddit = 0
    /\ include_comments = TRUE
    /\ max_comments_per_post = 0
    /\ IdleFetch("extract")
    /\ IdleRun
    /\ comments = <<>>
    /\ all_text = <<>>
    /\ flat_out = <<>>
    /\ raw_comments \in RawForests
    /\ extracted_comments = <<>>

NextExtract == ExtractCall

SpecExtract == InitExtract /\ [][NextExtract]_vars

(***************************************************************************)
(* Properties.                                                             *)
(***************************************************************************)
\* the entries of the pages up to and including the first page that is
\* empty or carries no next cursor
RECURSIVE Available(_)
Available(ps) ==
    IF ps = <<>>
    THEN 0
    ELSE IF Head(ps).n = 0 \/ ~Head(ps).after
    THEN Head(ps).n
    ELSE Head(ps).n + Available(Tail(ps))

AllTransient(as) == \A i \in 1..Len(as) : as[i] = "transient"

\* C1: when every page request succeeded, fetch_subreddit_posts returns
\* exactly min(limit, total available) posts, and never more than limit;
\* total available counts the entries of the pages up to and including the
\* first page without a next cursor (or the first empty page).
C1_ExactCount ==
    (pc = "list_ret" /\ ~page_failed /\ posts_per_subreddit >= 0) =>
        /\ Len(ReturnedPosts(listing_posts, page_failed))
             = Min(posts_per_subreddit, Available(served))
        /\ Len(ReturnedPosts(listing_posts, page_failed)) <= posts_per_subreddit
        /\ total_fetched = Len(listing_posts)

\* C1 witness: a second page carried more entries than were still missing,
\* and the listing returns exactly limit posts.
C1_Witness ==
    /\ pc = "list_ret"
    /\ ~page_failed
    /\ Len(served) = 2
    /\ SumLen(served) > posts_per_subreddit
    /\ Len(listing_posts) = posts_per_subreddit

\* C2: once a successful page carries no next cursor, no further page
\* request is issued and the next step returns the accumulated posts to the
\* caller, even when fewer than limit posts were collected.
C2_CursorExhaustion ==
    [][ (served /= <<>> /\ ~served[Len(served)].after) =>
            /\ pc = "list_ret"
            /\ page_reqs = Len(served)
            /\ pc' = "posts"
            /\ posts' = listing_posts
            /\ page_reqs' = 0 ]_vars

\* C2 witness: the listing ends on a non-empty page without a cursor with
\* fewer than limit posts collected.
C2_Witness ==
    /\ pc = "list_ret"
    /\ served /= <<>>
    /\ ~served[Len(served)].after
    /\ served[Len(served)].n > 0
    /\ Len(listing_posts) < posts_per_subreddit

\* C3: a logical request whose every attempt fails transiently issues
\* exactly 3 HTTP requests and then reports failure: never a 4th request,
\* never a result, and no failure report before the 3rd request.
C3_RetryBound ==
    /\ Len(attempts) <= 3
    /\ (req_result /= "none" /\ AllTransient(attempts)) =>
          /\ req_result \in {"pending", "raised"}
          /\ (req_result = "raised") = (Len(attempts) = 3)
          /\ req_result = "pending" => pc = "get"

\* C3 witness: three transient failures in a row, and the call has raised.
C3_Witness ==
    /\ req_result = "raised"
    /\ attempts = <<"transient", "transient", "transient">>

\* C4 (as claimed): a logical request whose first attempt fails with a
\* non-retryable client error is attempted exactly once: it escalates right
\* away, without a backoff sleep and without a second request.
C4_NonRetryableOnce ==
    (req_result /= "none" /\ attempts /= <<>> /\ attempts[1] = "client_error") =>
        /\ Len(attempts) = 1
        /\ sleeps = <<>>
        /\ req_result = "raised"

FailedEntirely(e) ==
    e.status = "raised" \/ (e.status = "page_failed" /\ e.n = 0)

CountOf(subreddit) ==
    Cardinality({i \in 1..Len(all_posts) : all_posts[i].subreddit = subreddit})

\* C5 (as claimed): in a run over 3 subreddits whose 2nd listing fetch fails
\* entirely (a transport failure absorbed in fetch_subreddit_posts, or an
\* exception that leaves it), the 3rd subreddit is still processed and the
\* merged result holds the posts of subreddits 1 and 3 and none of 2.
C5_Isolation ==
    ( /\ pc = "returned"
      /\ Len(subreddits) = 3
      /\ Len(fetch_log) >= 2
      /\ FailedEntirely(fetch_log[2]) ) =>
        /\ outcome = "returned"
        /\ Len(fetch_log) = 3
        /\ CountOf(subreddits[2]) = 0
        /\ CountOf(subreddits[1]) = fetch_log[1].n
        /\ CountOf(subreddits[3]) = fetch_log[3].n

\* C6: when a page request fails after the retries are exhausted, no
\* further page request is issued, nothing is raised, and the next step
\* returns exactly the posts of the pages fetched before the failure.
C6_PartialResult ==
    [][ page_failed =>
            /\ pc = "list_ret"
            /\ req_result = "raised"
            /\ page_reqs = Len(served) + 1
            /\ Len(listing_posts) = SumLen(served)
            /\ pc' = "posts"
            /\ posts' = listing_posts
            /\ outcome' = "running"
            /\ fetch_log' = Append(fetch_log,
                               [subreddit |-> subreddits[si],
                                status |-> "page_failed",
                                n |-> Len(listing_posts)]) ]_vars

\* C6 witness: the second page request failed after a first page of posts.
C6_Witness ==
    /\ page_failed
    /\ Len(served) = 1
    /\ Len(listing_posts) >= 1

DetailFailed(post) == post.detail \in {"transport", "absent", "raised"}

\* C7: a failure of one post's detail fetch or parse keeps the post, with
\* an empty top_comments list, and goes on to the next post; every post of
\* the listing gets its own detail fetch; and after the last post the
\* listing is merged and the loop goes on to the next subreddit.
C7_DetailIsolation ==
    [][ /\ ( \/ (pc = "get" /\ caller = "detail" /\ req_result' = "raised")
             \/ (pc = "detail"
                   /\ scrape_post_details(data).status /= "ok") ) =>
              /\ pc' = "posts"
              /\ pi' = pi + 1
              /\ Len(posts') = Len(posts)
              /\ posts'[pi].permalink = posts[pi].permalink
              /\ posts'[pi].has_top_comments
              /\ posts'[pi].top_comments = <<>>
              /\ \A i \in 1..Len(posts) : i /= pi => posts'[i] = posts[i]
              /\ outcome' = "running"
        /\ (pc = "posts" /\ include_comments /\ pi <= Len(posts)) =>
              /\ pc' = "get"
              /\ caller' = "detail"
              /\ posts' = posts
        /\ (pc = "posts" /\ (~include_comments \/ pi > Len(posts))) =>
              /\ pc' = "for"
              /\ si' = si + 1
              /\ Len(all_posts') = Len(all_posts) + Len(posts)
              /\ \A i \in 1..Len(posts) :
                    all_posts'[Len(all_posts) + i].permalink = posts[i].permalink
              /\ include_comments =>
                    \A i \in 1..Len(posts) : posts[i].has_top_comments ]_vars

\* C7 witness: the first post's detail fetch failed, the post is still in
\* the list with an empty top_comments, and the second post's detail request
\* is under way.
C7_Witness ==
    /\ pc = "get"
    /\ caller = "detail"
    /\ pi = 2
    /\ DetailFailed(posts[1])
    /\ posts[1].top_comments = <<>>

PermalinkCount(x, p) ==
    Cardinality({i \in 1..Len(x) : x[i].permalink = p})

SamePermalinks(x, y) ==
    /\ Len(x) = Len(y)
    /\ \A p \in {x[i].permalink : i \in 1..Len(x)}
                 \cup {y[i].permalink : i \in 1..Len(y)} :
          PermalinkCount(x, p) = PermalinkCount(y, p)

\* C8: the posts handed to the summarizer after the shuffle are a
\* permutation of the merged sequence fetch_posts_from_subreddits returned:
\* same length, same multiset of permalinks.
C8_ShufflePermutes ==
    pc \in {"shuffle", "analyze", "run_exit"} => SamePermalinks(run_posts, merged)

\* C8 witness: at least three posts are handed over, in another order.
C8_Witness ==
    /\ pc = "analyze"
    /\ Len(run_posts) >= 3
    /\ run_posts /= merged

RECURSIVE SubNodes(_)
SubNodes(f) ==
    IF f = <<>>
    THEN {}
    ELSE {Head(f)} \cup SubNodes(Head(f).replies) \cup SubNodes(Tail(f))

HasMarker(b) ==
    \/ Contains(StrLower(b), DeletedMarker)
    \/ Contains(StrLower(b), RemovedMarker)

\* a body that is exactly a marker, in any letter case, or is empty
IsMarkerOrEmpty(b) ==
    b = <<>> \/ StrLower(b) \in {DeletedMarker, RemovedMarker}

\* a body with text left after trimming and without a marker in it
NonDeletedNonEmpty(b) == Strip(b) /= <<>> /\ ~HasMarker(b)

RECURSIVE KeptCount(_)
KeptCount(f) ==
    IF f = <<>>
    THEN 0
    ELSE (IF NonDeletedNonEmpty(Head(f).body) THEN 1 ELSE 0)
           + KeptCount(Head(f).replies) + KeptCount(Tail(f))

Occurs(x, q) == \E i \in 1..Len(q) : q[i] = x

\* C10: a node whose body is a deletion or removal marker (any letter
\* case) or is empty contributes no entry, while every reply beneath it, at
\* any depth, that is neither deleted nor empty (text left after trimming,
\* no marker in it) still contributes its entry.
C10_DeletedKeepsReplies ==
    flat_out /= <<>> =>
        /\ Len(flat_out[1]) = KeptCount(comments)
        /\ \A c \in SubNodes(comments) :
              IsMarkerOrEmpty(c.body) =>
                  /\ extract_all_comments_text(<<c>>)
                       = extract_all_comments_text(c.replies)
                  /\ Len(extract_all_comments_text(<<c>>)) = KeptCount(c.replies)
                  /\ \A d \in SubNodes(c.replies) :
                        NonDeletedNonEmpty(d.body) =>
                            /\ Occurs(Strip(d.body),
                                      extract_all_comments_text(<<c>>))
                            /\ Occurs(Strip(d.body), flat_out[1])

\* C10 witness: a marker in another letter case with a kept reply two
\* levels beneath it, flattened.
C10_Witness ==
    /\ flat_out /= <<>>
    /\ \E c \in SubNodes(comments) :
          /\ c.body /= DeletedMarker
          /\ c.body /= RemovedMarker
          /\ StrLower(c.body) \in {DeletedMarker, RemovedMarker}
          /\ \E r \in SubNodes(c.replies) :
                \E d \in SubNodes(r.replies) : NonDeletedNonEmpty(d.body)

\* C11: a call of fetch_subreddit_posts with a category outside hot, top,
\* new fails before any network request: no page request, no HTTP attempt,
\* no backoff sleep and no pause happen, and the call ends raising.
C11_FailsFast ==
    category \notin ValidCategories =>
        /\ pc \in {"for", "returned"}
        /\ page_reqs = 0
        /\ attempts = <<>>
        /\ sleeps = <<>>
        /\ pauses = <<>>
        /\ served = <<>>
        /\ req_result = "none"
        /\ pc = "returned" =>
              /\ Len(fetch_log) = 1
              /\ fetch_log[1].status = "raised"

\* C11 witness: the call with the invalid category has ended, raising.
C11_Witness ==
    /\ category \notin ValidCategories
    /\ pc = "returned"
    /\ posts_per_subreddit >= 1
    /\ fetch_log = <<[subreddit |-> subreddits[1], status |-> "raised", n |-> 0]>>

\* C12: after fetch_posts_from_subreddits has returned with comments
\* enabled, every post of the result carries a top_comments list of at
\* most max_comments_per_post entries, whatever failed during the run.
C12_TopCommentsBounded ==
    (pc = "returned" /\ include_comments) =>
        \A i \in 1..Len(all_posts) :
            /\ all_posts[i].has_top_comments
            /\ Len(all_posts[i].top_comments) <= max_comments_per_post

\* C12 witness: the result holds a post with a full top_comments list and a
\* post with an empty one, and a later listing has failed.
C12_Witness ==
    /\ pc = "returned"
    /\ include_comments
    /\ max_comments_per_post >= 1
    /\ \E i \in 1..Len(all_posts) :
          Len(all_posts[i].top_comments) = max_comments_per_post
    /\ \E i \in 1..Len(all_posts) : all_posts[i].top_comments = <<>>
    /\ \E k \in 1..Len(fetch_log) : fetch_log[k].status /= "ok"

\* C13 (as claimed): a category outside hot, top, new reaches the caller of
\* fetch_posts_from_subreddits as an error instead of a returned post list
\* (transport and shape failures never do).
C13_ConfigErrorSurfaces ==
    /\ category \in ValidCategories => outcome /= "raised"
    /\ (pc = "returned" /\ category \notin ValidCategories) =>
          outcome = "raised"

\* C14 (as claimed): every listing page request asks for
\* min(100, remaining_limit) items, remaining_limit being limit minus the
\* posts already accumulated.
C14_BatchShrinks ==
    (pc = "get" /\ caller = "listing") =>
        batch_size = Min(ListingBatchCap, posts_per_subreddit - total_fetched)

\* C15: every listing page request after the first comes after a pause of
\* 1 to 2 time units taken after the previous successful page: at each
\* request the pauses taken equal the pages fetched so far, so no two
\* requests are back to back; and no pause follows a failed page.
C15_PausedBetweenPages ==
    /\ \A k \in 1..Len(pauses) : pauses[k] >= 1 /\ pauses[k] <= 2
    /\ Len(pauses) <= Len(served)
    /\ (pc = "get" /\ caller = "listing") =>
          /\ Len(served) = page_reqs - 1
          /\ Len(pauses) = page_reqs - 1
    /\ page_failed =>
          /\ pc = "list_ret"
          /\ Len(pauses) = page_reqs - 1
          /\ Len(pauses) = Len(served)

\* C15 witness: a third page request is under way after two pauses.
C15_Witness ==
    /\ pc = "get"
    /\ caller = "listing"
    /\ page_reqs = 3
    /\ Len(pauses) = 2

\* the failed attempts of the _make_request call under way or just finished
FailedAttempts == Len(SelectSeq(attempts, LAMBDA r : r /= "ok"))

\* the seconds slept by the _make_request call under way or just finished
RECURSIVE SleptSeconds(_)
SleptSeconds(sl) ==
    IF sl = <<>> THEN 0 ELSE Head(sl) + SleptSeconds(Tail(sl))

\* C16: in _make_request the failed attempt of zero-based index k, when it
\* is not the last attempt, is followed by a sleep of exactly 2^k seconds
\* (1 second, then 2 seconds); no sleep follows the final failed attempt,
\* so a call that fails on every attempt has slept 3 seconds in all.
C16_BackoffSchedule ==
    /\ sleeps \in {<<>>, <<1>>, <<1, 2>>}
    /\ req_result \in {"pending", "ok"} => Len(sleeps) = FailedAttempts
    /\ req_result = "raised" =>
          /\ FailedAttempts = 3
          /\ sleeps = <<1, 2>>
          /\ SleptSeconds(sleeps) = 3

\* C16 witness: a call has failed three times and has slept twice.
C16_Witness ==
    /\ req_result = "raised"
    /\ Len(attempts) = 3
    /\ Len(sleeps) = 2

\* C17 (as claimed): for every successfully fetched details response that
\* is not the well-formed two-element shape, scrape_post_details returns
\* absent (None) and does not raise.
C17_UnexpectedShapeAbsent ==
    (pc = "detail" /\ data.shape /= "ok") =>
        scrape_post_details(data).status = "absent"

\* the t1 nodes of one level of a raw forest, in their order
KeptAtLevel(raw) == SelectSeq(raw, LAMBDA c : c.kind = "t1")

\* out is the extraction of raw: level by level, its nodes are the t1 nodes
\* of raw in their order, each with its body and with a replies list that is
\* the extraction of the reply container when that is a structured object
\* and empty when it is the sentinel
RECURSIVE IsExtractionOf(_, _)
IsExtractionOf(out, raw) ==
    LET kept == KeptAtLevel(raw)
    IN  /\ Len(out) = Len(kept)
        /\ \A i \in 1..Len(kept) :
              /\ DOMAIN out[i] = {"body", "replies"}
              /\ out[i].body = kept[i].body
              /\ IF kept[i].replies.isdict
                 THEN IsExtractionOf(out[i].replies, kept[i].replies.children)
                 ELSE out[i].replies = <<>>

\* the nodes of a raw forest that are t1 and have only t1 ancestors
RECURSIVE ReachableComments(_)
ReachableComments(raw) ==
    IF raw = <<>>
    THEN 0
    ELSE (IF Head(raw).kind = "t1"
          THEN 1 + ReachableComments(Head(raw).replies.children)
          ELSE 0) + ReachableComments(Tail(raw))

\* the nodes of a forest of extracted comments
RECURSIVE ExtractedCount(_)
ExtractedCount(f) ==
    IF f = <<>>
    THEN 0
    ELSE 1 + ExtractedCount(Head(f).replies) + ExtractedCount(Tail(f))

\* C18: _extract_comments keeps exactly the t1 nodes of a raw comment
\* forest, in their original order at every level, and drops every other
\* node with its subtree; a kept node's replies list is the extraction of
\* its reply container when that is a structured object, and is empty when
\* it is the no-replies sentinel.
C18_KeepsComments ==
    pc = "extracted" =>
        /\ IsExtractionOf(extracted_comments, raw_comments)
        /\ ExtractedCount(extracted_comments)
             = ReachableComments(raw_comments)

\* C18 witness: a forest whose first node is a load-more stub with a comment
\* below it, followed by a comment with a structured reply container, has
\* been extracted.
C18_Witness ==
    /\ pc = "extracted"
    /\ Len(raw_comments) = 2
    /\ raw_comments[1].kind = "more"
    /\ raw_comments[1].replies.isdict
    /\ Len(raw_comments[1].replies.children) = 1
    /\ raw_comments[1].replies.children[1].kind = "t1"
    /\ raw_comments[2].kind = "t1"
    /\ raw_comments[2].replies.isdict
    /\ Len(extracted_comments) = 1

\* the bodies of a comment forest in pre-order: a node, then its replies'
\* subtrees, then its next siblings
RECURSIVE PreOrderBodies(_)
PreOrderBodies(f) ==
    IF f = <<>>
    THEN <<>>
    ELSE <<Head(f).body>> \o PreOrderBodies(Head(f).replies)
           \o PreOrderBodies(Tail(f))

\* the kept bodies of a sequence of bodies, trimmed
KeptTrimmed(bs) ==
    LET kept == SelectSeq(bs, NonDeletedNonEmpty)
    IN  [i \in 1..Len(kept) |-> Strip(kept[i])]

\* C19: extract_all_comments_text emits the kept bodies in pre-order (a
\* comment before its replies, a comment's whole subtree before its next
\* sibling, siblings left to right): the output is exactly the pre-order
\* sequence of the trimmed bodies with the empty and deleted ones removed.
C19_PreOrder ==
    flat_out /= <<>> =>
        flat_out[1] = KeptTrimmed(PreOrderBodies(comments))

\* C19 witness: a comment with a reply, followed by a sibling, all three
\* kept and the reply's text unlike the sibling's, flattened.
C19_Witness ==
    /\ flat_out /= <<>>
    /\ Len(comments) = 2
    /\ Len(comments[1].replies) = 1
    /\ Len(flat_out[1]) = 3
    /\ flat_out[1][2] /= flat_out[1][3]

\* C20: fetch_subreddit_posts terminates whatever the limit and the server
\* do, a server that always returns a non-empty page with a next cursor
\* included: every pass of the loop that comes back to its head has added a
\* post, so one call issues at most max(limit, 0) page requests, each of at
\* most 3 HTTP attempts, and none at all when limit <= 0.
C20_BoundedRequests ==
    /\ page_reqs <= (IF posts_per_subreddit > 0 THEN posts_per_subreddit ELSE 0)
    /\ Len(attempts) <= 3
    /\ posts_per_subreddit <= 0 => (page_reqs = 0 /\ attempts = <<>>)
    /\ pc = "while" => page_reqs <= total_fetched
    /\ (pc \in {"get", "page"} /\ caller = "listing") =>
          page_reqs <= total_fetched + 1

\* C20 witness: the server has answered three page requests with one entry
\* and a next cursor each, and the call with limit 3 has left its loop.
C20_Witness ==
    /\ pc = "list_ret"
    /\ posts_per_subreddit = 3
    /\ page_reqs = 3
    /\ Len(served) = 3
    /\ \A i \in 1..Len(served) : served[i].n = 1 /\ served[i].after

IsPrefix(p, q) == Len(p) <= Len(q) /\ SubSeq(q, 1, Len(p)) = p

\* the pre-order flattened text of the whole comment forest of a details
\* response
WholeForestText(resp) ==
    KeptTrimmed(PreOrderBodies(_extract_comments(resp.forest)))

\* C21: for every post whose details were fetched, the top_comments
\* attached to it are a prefix of the pre-order flattened text of the
\* post's whole comment forest: no earlier kept comment is skipped in
\* favour of a later one (fewer than max_comments_per_post may be attached
\* although the rest of the forest holds more kept comments).
C21_TopCommentsPrefix ==
    [][(pc = "detail" /\ data.shape = "ok") =>
          IsPrefix(posts'[pi].top_comments, WholeForestText(data))]_vars

\* C21 witness: with max_comments_per_post = 1, a post whose forest is a
\* deleted comment without replies followed by two trees of kept comments
\* went through the flattening and got no comment at all: fewer than
\* allowed, although the rest of the forest holds kept comments.
C21_Witness ==
    /\ pc = "posts"
    /\ max_comments_per_post = 1
    /\ pi > 1
    /\ posts[pi - 1].detail = "ok"
    /\ posts[pi - 1].top_comments = <<>>

====
